---- MODULE Spec2Model ----
(***************************************************************************)
(* Camera session lifecycle of picamctl.py: the request handlers /apply,   *)
(* /snapshot, /web, /vlc, /api/stop_vlc_mode, /reset and /restart_service, *)
(* the background threads they start (start_stream, start_h264_camera,     *)
(* start_vlc_camera), the boot thread of __main__, and the capture         *)
(* processes these spawn and kill.  Flask runs with threaded=True, so      *)
(* every handler and every background thread is a thread of its own; a     *)
(* step of the model is one uninterrupted stretch of one thread's code.    *)
(***************************************************************************)
EXTENDS Integers, Sequences, FiniteSets, TLC

\* Number of HTTP requests a behaviour contains (each is one of the handlers).
MaxReq == 2
\* A viewer of /video_feed relaunches its capture at most this many times.
MaxRespawn == 1
\* Requested widths are the multiples of 160 up to 160 * MaxWidthUnits and
\* requested heights the multiples of 120 up to 120 * MaxHeightUnits.
MaxWidthUnits == 13
MaxHeightUnits == 10
\* calculate_bandwidth is called at times 1..MaxTime, with the segment files
\* adding up to a multiple of 125 bytes, at most 125 * MaxByteUnits.
MaxTime == 4
MaxByteUnits == 2
\* The capture process writes at most MaxBytes bytes before it ends; one
\* process.stdout.read returns ReadSize bytes (16384 in the source), or, with
\* frames that are small against the read size, the whole output, and the
\* buffer without a start marker is cut to KeepBytes bytes (2048 there).
MaxBytes == 8
ReadSize == 3
KeepBytes == 2
\* A raw-tunnel capture process has at most MaxChunks chunks read from its
\* output.
MaxChunks == 3

Req == 1..MaxReq
\* Owner 0 is the boot sequence of __main__, which starts one camera thread.
Boot == 0
\* One request more than Req, for the interleavings that need a third client.
Viewers == 1..(MaxReq + 1)
Owners == {Boot} \cup Viewers
\* "h": the request handler, "s": its start_stream thread, "c": its camera
\* start thread (start_h264_camera or start_vlc_camera).
Roles == {"h", "s", "c"}
Threads == Owners \X Roles
NoThread == <<0 - 1, "none">>
\* current_camera_process = None
None == 0

VARIABLES
    current_camera_process, \* pid of the registered handle, or None
    camera_running,         \* the global flag
    streaming_mode,         \* 'hls' or 'vlc'
    settings,               \* the settings mapping (the keys the model keeps)
    camera_process_lock,    \* the thread holding threading.Lock(), or NoThread
    streaming_mode_lock,    \* the thread holding streaming_mode_lock
    procs,                  \* every capture process spawned so far, by pid:
                            \* running, killed (by a stop) or exited (by itself)
    hls_files,              \* the *.ts / *.m3u8 files in HLS_DIR
    kind,                   \* per owner: which handler the request runs
    body,                   \* per owner: request.json of an /apply
    pc,                     \* per thread: its position in the code
    cam,                    \* per owner: pipeline and command line of its camera thread
    pid,                    \* per owner: the process its camera thread spawned
    still,                  \* per owner: outcome of the rpicam-still run
    view,                   \* per owner: what its response carried so far, and
                            \* the process its generator reads from
    call,                   \* a call of a pure function: arguments and result
    settings_file,          \* what SETTINGS_FILE holds (NoFile if absent)
    mqtt_client,            \* number of init_mqtt() calls made by /apply
    bandwidth_data,         \* last_check_time, last_total_bytes, current_kbps
    file_gen,               \* history: settings_gen when the file was written
    \* history variables (never read by the program's actions)
    settings_gen,           \* number of settings mutations so far
    req_gen,                \* per owner: settings_gen right after its mutation
    stops,                  \* per owner: stop_camera_process calls so far
    spawns,                 \* per owner: capture processes it has spawned
    overlap,                \* per owner: owners that were active while it was
    mode_at_begin,          \* per owner: streaming_mode when the request arrived
    registered              \* per owner: its camera thread registered its handle

vars == <<current_camera_process, camera_running, streaming_mode, settings,
          camera_process_lock, streaming_mode_lock, procs, hls_files, kind,
          body, pc, cam, pid, still, view, call, settings_file, mqtt_client,
          bandwidth_data, file_gen, settings_gen, req_gen, stops, spawns,
          overlap, mode_at_begin, registered>>

prog == <<current_camera_process, camera_running, streaming_mode, settings,
          camera_process_lock, streaming_mode_lock, procs, hls_files>>
\* The settings file, the telemetry client and the bandwidth estimator.
periph == <<settings_file, mqtt_client, bandwidth_data, file_gen>>
hist == <<settings_gen, req_gen, stops, spawns, overlap, mode_at_begin, registered>>

----------------------------------------------------------------------------
(* Settings and the reconciliation policy                                   *)

\* The keys of the settings mapping the model keeps: the resolution, one
\* further disruptive key (rotation) and one non-disruptive key (brightness).
default_settings == [width |-> 1280, height |-> 720, rotation |-> 0, brightness |-> 0]

\* The module-level settings mapping: the same keys and values, and the
\* telemetry keys (one of them kept), which the dict in reset_settings lacks.
initial_settings ==
    [width |-> 1280, height |-> 720, rotation |-> 0, brightness |-> 0,
     mqtt_broker |-> "localhost"]

SUPPORTED_RESOLUTIONS ==
    << [width |-> 640,  height |-> 480],
       [width |-> 1280, height |-> 720],
       [width |-> 1920, height |-> 1080] >>

\* dict.get(key, default)
Get(d, key, default) == IF key \in DOMAIN d THEN d[key] ELSE default

\* dict.update(new)
Update(d, new) ==
    [k \in (DOMAIN d) \cup (DOMAIN new) |-> IF k \in DOMAIN new THEN new[k] ELSE d[k]]

\* A fallback that is always the lowest entry.
validate_resolution_lowest(width, height) ==
    IF \E i \in 1..Len(SUPPORTED_RESOLUTIONS) :
           SUPPORTED_RESOLUTIONS[i].width = width
           /\ SUPPORTED_RESOLUTIONS[i].height = height
    THEN [res |-> [width |-> width, height |-> height], warning |-> FALSE]
    ELSE [res |-> SUPPORTED_RESOLUTIONS[1], warning |-> TRUE]

\* validate_resolution: the requested pair if supported (no warning), else
\* the last entry of the leading run of entries that fit (the loop breaks at
\* the first entry that does not fit), else the lowest entry; with a warning.
validate_resolution(width, height) ==
    LET n == Len(SUPPORTED_RESOLUTIONS)
        Fits(i) == SUPPORTED_RESOLUTIONS[i].width <= width
                   /\ SUPPORTED_RESOLUTIONS[i].height <= height
        run == {k \in 1..n : \A i \in 1..k : Fits(i)}
        last == IF run = {} THEN 1 ELSE CHOOSE k \in run : \A j \in run : j <= k
    IN  IF \E i \in 1..n : SUPPORTED_RESOLUTIONS[i].width = width
                           /\ SUPPORTED_RESOLUTIONS[i].height = height
        THEN [res |-> [width |-> width, height |-> height], warning |-> FALSE]
        ELSE [res |-> SUPPORTED_RESOLUTIONS[last], warning |-> TRUE]

restart_required_settings ==
    {"width", "height", "framerate", "vflip", "hflip",
     "rotation", "exposure", "denoise", "hdr", "zoom"}

\* new_settings as apply_settings leaves it before settings.update: the
\* validated width and height are written INTO the request body.
NewSettings(b, s) ==
    LET v == validate_resolution(Get(b, "width", s.width), Get(b, "height", s.height))
    IN  Update(b, [width |-> v.res.width, height |-> v.res.height])

\* needs_restart = any(key in new_settings for key in restart_required_settings)
NeedsRestart(new_settings) ==
    \E key \in restart_required_settings : key \in DOMAIN new_settings

\* The disruptive keys a client actually sent.
Disruptive(b) == (DOMAIN b) \cap restart_required_settings # {}

\* mqtt_settings in apply_settings
mqtt_settings ==
    {"mqtt_enabled", "mqtt_broker", "mqtt_port", "mqtt_user", "mqtt_password",
     "mqtt_base_topic"}

\* mqtt_changed = any(key in new_settings for key in mqtt_settings)
MqttChanged(new_settings) == \E key \in mqtt_settings : key \in DOMAIN new_settings

\* The request bodies of /apply the model draws from.
ApplyBodies ==
    { [brightness |-> 1],
      [rotation |-> 90],
      [width |-> 800, height |-> 600],
      [mqtt_broker |-> "broker2"] }

\* A save that leaves the file as it was.
save_settings_skipped(file, s) == file

\* save_settings: json.dump(settings, f) into SETTINGS_FILE opened with 'w':
\* the file holds the whole mapping.
save_settings(file, s) == s

\* bandwidth_data before the first call of calculate_bandwidth; current_kbps
\* is kept as an exact fraction <<numerator, denominator>>.
NoBandwidth == [last_check_time |-> 0, last_total_bytes |-> 0, current_kbps |-> <<0, 1>>]

NoBody == [none |-> 0]

\* What SETTINGS_FILE may hold when the program starts: nothing, what an
\* earlier run saved, or what somebody wrote into the JSON file.
NoFile == [none |-> 0]
PersistedBlobs ==
    { NoFile,
      [width |-> 1920, height |-> 1080, rotation |-> 0, brightness |-> 0],
      [brightness |-> 1],
      [width |-> 800, height |-> 600] }

\* load_settings: if the file exists, settings.update(json.load(f)), the
\* loaded values taken as they are; otherwise the defaults stay.
load_settings(blob, s) == IF blob = NoFile THEN s ELSE Update(s, blob)

\* Nothing sent yet, no process attached.
NoView == [resp |-> "none", proc |-> None, got |-> << >>]
\* No pure function is being called.
NoCall == [fn |-> "none", args |-> << >>, ret |-> << >>]

----------------------------------------------------------------------------
(* Capture processes                                                        *)

Pids == 1..Len(procs)
\* poll() is None
Alive(p) == procs[p].state = "running"
AliveCaptures == {p \in Pids : Alive(p)}

\* pkill -f 'rpicam-vid.*h264' and pkill -f 'ffmpeg.*hls' match the command
\* line of the HLS pipeline (sh -c "rpicam-vid ... h264 ... | ffmpeg ... hls")
\* and of the raw-tunnel capture (rpicam-vid ... --codec h264 ...).
PkillMatches(p) == p.kind \in {"hls", "vlc"}

\* The name-based kill followed by time.sleep(0.5): every matching process is
\* gone, except that the tracked one may not have died yet when it is polled
\* (slow), which the handle-based path below then deals with.
Pkill(ps, cur, slow) ==
    [p \in DOMAIN ps |->
        IF ps[p].state = "running" /\ PkillMatches(ps[p]) /\ ~(slow /\ p = cur)
        THEN [ps[p] EXCEPT !.state = "killed"]
        ELSE ps[p]]

\* A terminate that the process ignores, with no kill to follow.
TerminatedNot(p) == p

\* process.terminate(); wait(timeout=2); on any exception kill(); wait()
Terminated(p) == [p EXCEPT !.state = "killed"]

\* A stop that clears the reference whether or not the handle was alive.
TerminateTrackedAlwaysClears(ps, cur) ==
    IF cur # None /\ ps[cur].state = "running"
    THEN [procs |-> [ps EXCEPT ![cur].state = "killed"], cur |-> None]
    ELSE [procs |-> ps, cur |-> None]

\* if current_camera_process and current_camera_process.poll() is None:
\*     terminate / wait(2) / kill / wait;  current_camera_process = None
TerminateTracked(ps, cur) ==
    IF cur # None /\ ps[cur].state = "running"
    THEN [procs |-> [ps EXCEPT ![cur] = Terminated(@)], cur |-> None]
    ELSE [procs |-> ps, cur |-> cur]

\* The whole of stop_camera_process on (procs, current_camera_process).
StopCameraProcess(ps, cur, slow) == TerminateTracked(Pkill(ps, cur, slow), cur)

----------------------------------------------------------------------------
(* Threads                                                                  *)

Idle(t) == pc[t] \in {"idle", "done"}
Active(o) == \E role \in Roles : ~Idle(<<o, role>>)
Quiescent == \A t \in Threads : Idle(t)

RequestKinds == {"apply", "snapshot", "web", "vlc", "stop_vlc", "reset", "restart",
                 "video_feed", "serve_hls", "stream_h264"}

\* First statement of each handler.
HandlerEntry(k) ==
    CASE k = "apply"    -> "update"
      [] k = "reset"    -> "update"
      [] k = "snapshot" -> "stop1"
      [] k = "restart"  -> "stop1"
      [] k = "web"      -> "mode_lock"
      [] k = "vlc"      -> "mode_lock"
      [] k = "stop_vlc" -> "mode_set"
      [] k = "video_feed"  -> "gate"
      [] k = "serve_hls"   -> "serve"
      [] k = "stream_h264" -> "check"

\* A start_stream that goes straight to starting the camera thread.
StartStreamEntryNoStop == "spawn_cam"

\* First statement of start_stream that touches the session: after
\* save_settings() it calls stop_camera_process().
StartStreamEntry == "stop1"

\* Where a thread continues when its call of stop_camera_process returns.
AfterStop(t) ==
    IF t[2] = "s" THEN "spawn_cam"
    ELSE CASE kind[t[1]] \in {"apply", "reset", "restart"} -> "clear_running"
           [] kind[t[1]] = "snapshot"                      -> "still"
           [] kind[t[1]] \in {"web", "vlc"}                -> "set_mode"
           [] kind[t[1]] = "stop_vlc"                      -> "done"

TypeOK ==
    /\ current_camera_process \in {None} \cup Pids
    /\ camera_running \in BOOLEAN
    /\ streaming_mode \in {"hls", "vlc"}
    /\ camera_process_lock \in Threads \cup {NoThread}
    /\ streaming_mode_lock \in Threads \cup {NoThread}
    /\ hls_files \subseteq {"segment_000.ts", "stream.m3u8"}
    /\ \A o \in Owners : view[o].proc \in {None} \cup Pids
    /\ \A o \in Req : kind[o] \in RequestKinds \cup {"none"}

\* The state when app.run starts serving, load_settings having read the
\* settings file.
InitWith(blob) ==
    /\ current_camera_process = None
    /\ camera_running = FALSE
    /\ streaming_mode = "hls"
    /\ settings = load_settings(blob, initial_settings)
    /\ settings_file = blob
    /\ file_gen = 0
    /\ mqtt_client = 0
    /\ bandwidth_data = NoBandwidth
    /\ camera_process_lock = NoThread
    /\ streaming_mode_lock = NoThread
    /\ procs = << >>
    /\ hls_files = {}
    /\ kind = [o \in Owners |-> IF o = Boot THEN "boot" ELSE "none"]
    /\ body = [o \in Owners |-> NoBody]
       \* __main__: threading.Thread(target=start_h264_camera).start()
    /\ pc = [t \in Threads |-> IF t = <<Boot, "c">> THEN "build" ELSE "idle"]
    /\ cam = [o \in Owners |-> [kind |-> "hls", gen |-> 0]]
    /\ pid = [o \in Owners |-> None]
    /\ still = [o \in Owners |-> "none"]
    /\ view = [o \in Owners |-> NoView]
    /\ call = NoCall
    /\ settings_gen = 0
    /\ req_gen = [o \in Owners |-> 0]
    /\ stops = [o \in Owners |-> 0]
    /\ spawns = [o \in Owners |-> 0]
    /\ overlap = [o \in Owners |-> {}]
    /\ mode_at_begin = [o \in Owners |-> "hls"]
    /\ registered = [o \in Owners |-> FALSE]

\* No settings file: load_settings returns False and the defaults stand.
Init == InitWith(NoFile)

\* A request arrives and Flask starts its handler thread.
Begin(r) ==
    /\ kind[r] = "none"
    /\ r = 1 \/ kind[r - 1] # "none"
    /\ \E k \in RequestKinds :
       \E b \in (IF k = "apply" THEN ApplyBodies ELSE {NoBody}) :
          /\ kind' = [kind EXCEPT ![r] = k]
          /\ body' = [body EXCEPT ![r] = b]
          /\ pc' = [pc EXCEPT ![<<r, "h">>] = HandlerEntry(k)]
    /\ overlap' = [o \in Owners |->
                     IF o = r THEN {a \in Owners : a # r /\ Active(a)}
                     ELSE IF Active(o) THEN overlap[o] \cup {r}
                     ELSE overlap[o]]
    /\ mode_at_begin' = [mode_at_begin EXCEPT ![r] = streaming_mode]
    /\ UNCHANGED <<view, call, periph, prog, cam, pid, still, settings_gen, req_gen, stops, spawns, registered>>

\* stop_camera_process, first half: take the lock, pkill by name, sleep.
StopPkill(t) ==
    /\ pc[t] = "stop1"
    /\ camera_process_lock = NoThread
    /\ camera_process_lock' = t
    /\ \E slow \in BOOLEAN : procs' = Pkill(procs, current_camera_process, slow)
    /\ pc' = [pc EXCEPT ![t] = "stop2"]
    /\ stops' = [stops EXCEPT ![t[1]] = @ + 1]
    /\ UNCHANGED <<view, call, periph, current_camera_process, camera_running, streaming_mode, settings,
                   streaming_mode_lock, hls_files, kind, body, cam, pid, still,
                   settings_gen, req_gen, spawns, overlap, mode_at_begin, registered>>

\* stop_camera_process, second half: poll the tracked handle, terminate or
\* kill it, clear the reference, release the lock.  (The FIFO it removes is
\* never created by this program.)
StopTerminate(t) ==
    /\ pc[t] = "stop2"
    /\ camera_process_lock = t
    /\ LET r == TerminateTracked(procs, current_camera_process)
       IN  /\ procs' = r.procs
           /\ current_camera_process' = r.cur
    /\ camera_process_lock' = NoThread
    /\ pc' = [pc EXCEPT ![t] = AfterStop(t)]
    /\ UNCHANGED <<view, call, periph, camera_running, streaming_mode, settings, streaming_mode_lock,
                   hls_files, kind, body, cam, pid, still, hist>>

----------------------------------------------------------------------------
(* Request handlers                                                         *)

\* apply_settings up to its stop_camera_process(): validate the resolution,
\* write it into the body, merge the body into settings, save_settings(),
\* decide whether to restart, reinitialise the telemetry client if the body
\* has one of its keys.
ApplyUpdate(r) ==
    /\ kind[r] = "apply"
    /\ pc[<<r, "h">>] = "update"
    /\ LET new_settings == NewSettings(body[r], settings)
       IN  /\ settings' = Update(settings, new_settings)
           /\ settings_file' = save_settings(settings_file, settings')
           /\ mqtt_client' = IF MqttChanged(new_settings)
                             THEN mqtt_client + 1 ELSE mqtt_client
           /\ pc' = [pc EXCEPT ![<<r, "h">>] =
                        IF NeedsRestart(new_settings) THEN "stop1" ELSE "done"]
    /\ settings_gen' = settings_gen + 1
    /\ file_gen' = settings_gen + 1
    /\ req_gen' = [req_gen EXCEPT ![r] = settings_gen + 1]
    /\ UNCHANGED <<view, call, bandwidth_data, current_camera_process, camera_running, streaming_mode,
                   camera_process_lock, streaming_mode_lock, procs, hls_files,
                   kind, body, cam, pid, still, stops, spawns, overlap,
                   mode_at_begin, registered>>

\* apply_settings after its stop_camera_process(): camera_running = False
\* under the lock, then threading.Thread(target=start_stream).start(), whose
\* first statement is save_settings().
ApplyRestart(r) ==
    /\ kind[r] = "apply"
    /\ pc[<<r, "h">>] = "clear_running"
    /\ camera_process_lock = NoThread
    /\ camera_running' = FALSE
    /\ pc' = [pc EXCEPT ![<<r, "h">>] = "done", ![<<r, "s">>] = StartStreamEntry]
    /\ settings_file' = save_settings(settings_file, settings)
    /\ file_gen' = settings_gen
    /\ UNCHANGED <<view, call, mqtt_client, bandwidth_data, current_camera_process, streaming_mode, settings,
                   camera_process_lock, streaming_mode_lock, procs, hls_files,
                   kind, body, cam, pid, still, hist>>

\* start_stream after its stop_camera_process() and time.sleep(2):
\* threading.Thread(target=start_h264_camera).start().
StartStreamSpawn(r) ==
    /\ pc[<<r, "s">>] = "spawn_cam"
    /\ pc' = [pc EXCEPT ![<<r, "s">>] = "done", ![<<r, "c">>] = "build"]
    /\ cam' = [cam EXCEPT ![r].kind = "hls"]
    /\ UNCHANGED <<view, call, periph, prog, kind, body, pid, still, hist>>

\* reset_settings: settings.update(default_settings).
ResetUpdate(r) ==
    /\ kind[r] = "reset"
    /\ pc[<<r, "h">>] = "update"
    /\ settings' = Update(settings, default_settings)
    /\ settings_gen' = settings_gen + 1
    /\ req_gen' = [req_gen EXCEPT ![r] = settings_gen + 1]
    /\ pc' = [pc EXCEPT ![<<r, "h">>] = "stop1"]
    /\ UNCHANGED <<view, call, periph, current_camera_process, camera_running, streaming_mode,
                   camera_process_lock, streaming_mode_lock, procs, hls_files,
                   kind, body, cam, pid, still, stops, spawns, overlap,
                   mode_at_begin, registered>>

\* reset_settings after its stop_camera_process(): camera_running = False
\* under the lock, save_settings(), return.  No thread is started.
ResetFinish(r) ==
    /\ kind[r] = "reset"
    /\ pc[<<r, "h">>] = "clear_running"
    /\ camera_process_lock = NoThread
    /\ camera_running' = FALSE
    /\ pc' = [pc EXCEPT ![<<r, "h">>] = "done"]
    /\ settings_file' = save_settings(settings_file, settings)
    /\ file_gen' = settings_gen
    /\ UNCHANGED <<view, call, mqtt_client, bandwidth_data, current_camera_process, streaming_mode, settings,
                   camera_process_lock, streaming_mode_lock, procs, hls_files,
                   kind, body, cam, pid, still, hist>>

\* restart_service after its stop_camera_process(): camera_running = False
\* under the lock, sleep, threading.Thread(target=start_h264_camera).start().
RestartServiceStart(r) ==
    /\ kind[r] = "restart"
    /\ pc[<<r, "h">>] = "clear_running"
    /\ camera_process_lock = NoThread
    /\ camera_running' = FALSE
    /\ pc' = [pc EXCEPT ![<<r, "h">>] = "done", ![<<r, "c">>] = "build"]
    /\ cam' = [cam EXCEPT ![r].kind = "hls"]
    /\ UNCHANGED <<view, call, periph, current_camera_process, streaming_mode, settings,
                   camera_process_lock, streaming_mode_lock, procs, hls_files,
                   kind, body, pid, still, hist>>

\* take_snapshot after stop_camera_process() and the sleep: subprocess.run of
\* rpicam-still begins.
SnapshotStill(r) ==
    /\ kind[r] = "snapshot"
    /\ pc[<<r, "h">>] = "still"
    /\ pc' = [pc EXCEPT ![<<r, "h">>] = "still_run"]
    /\ UNCHANGED <<view, call, periph, prog, kind, body, cam, pid, still, hist>>

\* The outcomes of subprocess.run(cmd, capture_output=True, timeout=10).
StillOutcomes == {"ok", "failed", "timeout"}

\* take_snapshot: rpicam-still returns 0, returns non-zero, or times out; on
\* each of the three paths the handler starts start_h264_camera and returns.
SnapshotReturn(r) ==
    /\ kind[r] = "snapshot"
    /\ pc[<<r, "h">>] = "still_run"
    /\ \E outcome \in StillOutcomes : still' = [still EXCEPT ![r] = outcome]
    /\ pc' = [pc EXCEPT ![<<r, "h">>] = "done", ![<<r, "c">>] = "build"]
    /\ cam' = [cam EXCEPT ![r].kind = "hls"]
    /\ UNCHANGED <<view, call, periph, prog, kind, body, pid, hist>>

\* The slot of a start_h264_camera thread that a handler starts beyond its
\* first: a behaviour has at most one such thread.
Spare == MaxReq + 1

\* take_snapshot: rpicam-still returns, the handler starts
\* start_h264_camera, and a statement after that (result.stderr.decode(),
\* publish_event, jsonify) raises: control passes to except Exception.
SnapshotRaise(r) ==
    /\ kind[r] = "snapshot"
    /\ pc[<<r, "h">>] = "still_run"
    /\ pc[<<Spare, "c">>] = "idle"
    /\ still' = [still EXCEPT ![r] = "raised"]
    /\ pc' = [pc EXCEPT ![<<r, "h">>] = "snap_except", ![<<r, "c">>] = "build"]
    /\ cam' = [cam EXCEPT ![r].kind = "hls"]
    /\ UNCHANGED <<view, call, periph, prog, kind, body, pid, hist>>

\* take_snapshot, except Exception: time.sleep(0.5), start
\* start_h264_camera (again) and return the 500 response.
SnapshotExcept(r) ==
    /\ kind[r] = "snapshot"
    /\ pc[<<r, "h">>] = "snap_except"
    /\ pc[<<Spare, "c">>] = "idle"
    /\ pc' = [pc EXCEPT ![<<r, "h">>] = "done", ![<<Spare, "c">>] = "build"]
    /\ cam' = [cam EXCEPT ![Spare].kind = "hls"]
    /\ UNCHANGED <<view, call, periph, prog, kind, body, pid, still, hist>>

\* The mode a mode-switch handler switches to.
TargetMode(k) == IF k = "vlc" THEN "vlc" ELSE "hls"

\* A handler that enters its with-block without taking the lock.
WithoutModeLock(r) == NoThread

\* with streaming_mode_lock: the handler of request r holds the lock.
WithModeLock(r) == <<r, "h">>

\* web_mode / vlc_mode: with streaming_mode_lock: if streaming_mode != target.
\* When the mode is already the target the with-block ends at once.
ModeLock(r) ==
    /\ kind[r] \in {"web", "vlc"}
    /\ pc[<<r, "h">>] = "mode_lock"
    /\ streaming_mode_lock = NoThread
    /\ IF streaming_mode # TargetMode(kind[r])
       THEN /\ streaming_mode_lock' = WithModeLock(r)
            /\ pc' = [pc EXCEPT ![<<r, "h">>] = "stop1"]
       ELSE /\ streaming_mode_lock' = NoThread
            /\ pc' = [pc EXCEPT ![<<r, "h">>] = "done"]
    /\ UNCHANGED <<view, call, periph, current_camera_process, camera_running, streaming_mode, settings,
                   camera_process_lock, procs, hls_files, kind, body, cam, pid,
                   still, hist>>

\* web_mode / vlc_mode after stop_camera_process(): streaming_mode = target,
\* start the camera thread of the target pipeline.
SetMode(r) ==
    /\ kind[r] \in {"web", "vlc"}
    /\ pc[<<r, "h">>] = "set_mode"
    /\ streaming_mode' = TargetMode(kind[r])
    /\ pc' = [pc EXCEPT ![<<r, "h">>] = "mode_unlock", ![<<r, "c">>] = "build"]
    /\ cam' = [cam EXCEPT ![r].kind = TargetMode(kind[r])]
    /\ UNCHANGED <<view, call, periph, current_camera_process, camera_running, settings,
                   camera_process_lock, streaming_mode_lock, procs, hls_files,
                   kind, body, pid, still, hist>>

\* web_mode / vlc_mode: time.sleep(2) ends, the with-block releases the lock.
ModeUnlock(r) ==
    /\ pc[<<r, "h">>] = "mode_unlock"
    /\ streaming_mode_lock' = NoThread
    /\ pc' = [pc EXCEPT ![<<r, "h">>] = "done"]
    /\ UNCHANGED <<view, call, periph, current_camera_process, camera_running, streaming_mode, settings,
                   camera_process_lock, procs, hls_files, kind, body, cam, pid,
                   still, hist>>

\* stop_vlc_mode_endpoint: with streaming_mode_lock: streaming_mode = 'hls'
StopVlcMode(r) ==
    /\ kind[r] = "stop_vlc"
    /\ pc[<<r, "h">>] = "mode_set"
    /\ streaming_mode_lock = NoThread
    /\ streaming_mode_lock' = WithModeLock(r)
    /\ streaming_mode' = "hls"
    /\ pc' = [pc EXCEPT ![<<r, "h">>] = "mode_release"]
    /\ UNCHANGED <<view, call, periph, current_camera_process, camera_running, settings,
                   camera_process_lock, procs, hls_files,
                   kind, body, cam, pid, still, hist>>

\* stop_vlc_mode_endpoint: the with-block ends; the stop_camera_process()
\* that follows runs outside that lock.
StopVlcModeRelease(r) ==
    /\ kind[r] = "stop_vlc"
    /\ pc[<<r, "h">>] = "mode_release"
    /\ streaming_mode_lock' = NoThread
    /\ pc' = [pc EXCEPT ![<<r, "h">>] = "stop1"]
    /\ UNCHANGED <<view, call, periph, current_camera_process, camera_running, streaming_mode,
                   settings, camera_process_lock, procs, hls_files,
                   kind, body, cam, pid, still, hist>>

----------------------------------------------------------------------------
(* Viewers: /video_feed, /stream.h264 and /hls/<file>                       *)

\* A gate that never finds the camera in use.
InUseNever(running) == FALSE

\* if camera_running:
InUse(running) == running

\* generate_frames, the busy gate: with camera_process_lock: if
\* camera_running, the generator is about to yield the busy chunk (inside the
\* with-block); otherwise it claims the flag and leaves the block.
FeedGate(r) ==
    /\ kind[r] = "video_feed"
    /\ pc[<<r, "h">>] = "gate"
    /\ camera_process_lock = NoThread
    /\ IF InUse(camera_running)
       THEN /\ camera_process_lock' = <<r, "h">>
            /\ pc' = [pc EXCEPT ![<<r, "h">>] = "busy"]
            /\ UNCHANGED camera_running
       ELSE /\ camera_running' = TRUE
            /\ pc' = [pc EXCEPT ![<<r, "h">>] = "mj_popen"]
            /\ UNCHANGED camera_process_lock
    /\ UNCHANGED <<view, call, periph, current_camera_process, streaming_mode, settings,
                   streaming_mode_lock, procs, hls_files, kind, body, cam, pid,
                   still, hist>>

\* The rejected viewer: yield the 'Camera in use by another viewer' part and
\* return, which ends the with-block.  The return is outside the try whose
\* finally resets camera_running.
FeedBusy(r) ==
    /\ pc[<<r, "h">>] = "busy"
    /\ view' = [view EXCEPT ![r].resp = "busy"]
    /\ camera_process_lock' = NoThread
    /\ pc' = [pc EXCEPT ![<<r, "h">>] = "done"]
    /\ UNCHANGED <<call, periph, current_camera_process, camera_running, streaming_mode,
                   settings, streaming_mode_lock, procs, hls_files, kind, body,
                   cam, pid, still, hist>>

\* The rpicam-vid --codec mjpeg process of a viewer.
SpawnedMjpeg == [kind |-> "mjpeg", state |-> "running", gen |-> settings_gen, sent |-> 0]

\* generate_frames, top of the while True loop: build the command and
\* process = subprocess.Popen(cmd, stdout=PIPE, ...), no lock held.
FeedPopen(r) ==
    /\ pc[<<r, "h">>] \in {"mj_popen", "mj_respawn"}
    /\ spawns[r] <= MaxRespawn
    /\ procs' = Append(procs, SpawnedMjpeg)
    /\ pid' = [pid EXCEPT ![r] = Len(procs) + 1]
    /\ spawns' = [spawns EXCEPT ![r] = @ + 1]
    /\ pc' = [pc EXCEPT ![<<r, "h">>] = "mj_register"]
    /\ UNCHANGED <<view, call, periph, current_camera_process, camera_running, streaming_mode,
                   settings, camera_process_lock, streaming_mode_lock, hls_files,
                   kind, body, cam, still, settings_gen, req_gen, stops, overlap,
                   mode_at_begin, registered>>

\* with camera_process_lock: current_camera_process = process
FeedRegister(r) ==
    /\ pc[<<r, "h">>] = "mj_register"
    /\ camera_process_lock = NoThread
    /\ current_camera_process' = pid[r]
    /\ pc' = [pc EXCEPT ![<<r, "h">>] = "mj_stream"]
    /\ UNCHANGED <<view, call, periph, camera_running, streaming_mode, settings,
                   camera_process_lock, streaming_mode_lock, procs, hls_files,
                   kind, body, cam, pid, still, hist>>

\* The read loop finds a complete JPEG in the buffer and yields it.
FeedFrame(r) ==
    /\ pc[<<r, "h">>] = "mj_stream"
    /\ Alive(pid[r])
    /\ view[r].resp # "frames"
    /\ view' = [view EXCEPT ![r].resp = "frames"]
    /\ UNCHANGED <<call, periph, prog, kind, body, pc, cam, pid, still, hist>>

\* The read loop sees end of file and process.poll() is not None: break, the
\* inner finally has nothing left to terminate, and while True starts over
\* at once: no sleep lies between the break and the next Popen.
FeedProcessEnded(r) ==
    /\ pc[<<r, "h">>] = "mj_stream"
    /\ ~Alive(pid[r])
    /\ pc' = [pc EXCEPT ![<<r, "h">>] = "mj_respawn"]
    /\ UNCHANGED <<view, call, periph, prog, kind, body, cam, pid, still, hist>>

\* The read returns no data while the process is still running:
\* time.sleep(0.01) and continue, back to the same read.
FeedStall(r) ==
    /\ pc[<<r, "h">>] = "mj_stream"
    /\ Alive(pid[r])
    /\ pc' = [pc EXCEPT ![<<r, "h">>] = "mj_stalled"]
    /\ UNCHANGED <<view, call, periph, prog, kind, body, cam, pid, still, hist>>

FeedStallRetry(r) ==
    /\ pc[<<r, "h">>] = "mj_stalled"
    /\ pc' = [pc EXCEPT ![<<r, "h">>] = "mj_stream"]
    /\ UNCHANGED <<view, call, periph, prog, kind, body, cam, pid, still, hist>>

\* subprocess.Popen raises (rpicam-vid cannot be started): process is still
\* None and control passes to except Exception.
FeedPopenRaises(r) ==
    /\ pc[<<r, "h">>] \in {"mj_popen", "mj_respawn"}
    /\ pid' = [pid EXCEPT ![r] = None]
    /\ pc' = [pc EXCEPT ![<<r, "h">>] = "mj_fallback"]
    /\ UNCHANGED <<view, call, periph, prog, kind, body, cam, still, hist>>

\* The process left behind by a generator that skips its cleanup.
FinallyTerminateSkipped(ps, p) == ps

\* The inner finally: if process: terminate(), wait(timeout=1), else kill().
FinallyTerminate(ps, p) ==
    IF p # None /\ ps[p].state = "running"
    THEN [ps EXCEPT ![p] = Terminated(ps[p])]
    ELSE ps

\* except Exception: sleep 2 more seconds when the failure came within 5
\* seconds of the last one, run one rpicam-still (subprocess.run, timeout 1),
\* yield its image when it succeeded, then time.sleep(1 / framerate), or
\* time.sleep(0.5) when the fallback itself raised.  The client may be gone
\* at the yield; otherwise the inner finally runs and while True starts over.
FeedFallback(r) ==
    /\ pc[<<r, "h">>] = "mj_fallback"
    /\ \E ok \in BOOLEAN, gone \in BOOLEAN :
          /\ view' = IF ok THEN [view EXCEPT ![r].resp = "frames"] ELSE view
          /\ pc' = [pc EXCEPT ![<<r, "h">>] =
                       IF ok /\ gone THEN "mj_release" ELSE "mj_popen"]
    /\ procs' = FinallyTerminate(procs, pid[r])
    /\ UNCHANGED <<call, periph, current_camera_process, camera_running, streaming_mode,
                   settings, camera_process_lock, streaming_mode_lock, hls_files,
                   kind, body, cam, pid, still, hist>>

\* The client goes away: GeneratorExit is raised at the yield, and the inner
\* finally terminates the viewer's process (terminate, wait(1), else kill).
FeedDisconnect(r) ==
    /\ pc[<<r, "h">>] = "mj_stream"
    /\ view[r].resp = "frames"
    /\ procs' = FinallyTerminate(procs, pid[r])
    /\ pc' = [pc EXCEPT ![<<r, "h">>] = "mj_release"]
    /\ UNCHANGED <<view, call, periph, current_camera_process, camera_running, streaming_mode,
                   settings, camera_process_lock, streaming_mode_lock, hls_files,
                   kind, body, cam, pid, still, hist>>

\* The outer finally: with camera_process_lock: camera_running = False
FeedRelease(r) ==
    /\ pc[<<r, "h">>] = "mj_release"
    /\ camera_process_lock = NoThread
    /\ camera_running' = FALSE
    /\ pc' = [pc EXCEPT ![<<r, "h">>] = "done"]
    /\ UNCHANGED <<view, call, periph, current_camera_process, streaming_mode, settings,
                   camera_process_lock, streaming_mode_lock, procs, hls_files,
                   kind, body, cam, pid, still, hist>>

\* A /stream.h264 that lets every request through to the generator.
StreamAllowedAlways(mode) == TRUE

\* stream_h264: if streaming_mode != 'vlc': return jsonify(error), 400
StreamAllowed(mode) == mode = "vlc"

\* stream_h264, the mode check (it takes no lock).
StreamCheck(r) ==
    /\ kind[r] = "stream_h264"
    /\ pc[<<r, "h">>] = "check"
    /\ IF StreamAllowed(streaming_mode)
       THEN /\ pc' = [pc EXCEPT ![<<r, "h">>] = "attach"]
            /\ UNCHANGED view
       ELSE /\ pc' = [pc EXCEPT ![<<r, "h">>] = "done"]
            /\ view' = [view EXCEPT ![r].resp = "400"]
    /\ UNCHANGED <<call, periph, prog, kind, body, cam, pid, still, hist>>

\* The handle generate_vlc_stream can read from: registered, alive, and with
\* a stdout pipe (the HLS pipeline is started with stdout=DEVNULL, so
\* process.stdout is None and fcntl raises, which ends the generator).
Readable(cur) == cur # None /\ Alive(cur) /\ procs[cur].kind # "hls"

\* generate_vlc_stream: with camera_process_lock: if not
\* current_camera_process or poll() is not None: return; otherwise
\* process = current_camera_process and the stdout is made non-blocking.
StreamAttach(r) ==
    /\ pc[<<r, "h">>] = "attach"
    /\ camera_process_lock = NoThread
    /\ IF Readable(current_camera_process)
       THEN /\ view' = [view EXCEPT ![r].proc = current_camera_process]
            /\ pc' = [pc EXCEPT ![<<r, "h">>] = "reading"]
       ELSE /\ view' = [view EXCEPT ![r].resp = "empty"]
            /\ pc' = [pc EXCEPT ![<<r, "h">>] = "done"]
    /\ UNCHANGED <<call, periph, prog, kind, body, cam, pid, still, hist>>

\* A reader that keeps a position of its own in the output.
ChunkReadOwnCursor(sent, got) == Len(got) + 1

\* process.stdout.read(8192) on the one pipe of the process: the chunk that
\* follows the chunks read from it so far, by whichever reader.
ChunkRead(sent, got) == sent + 1

\* chunk = process.stdout.read(8192); if chunk: yield chunk.  procs[p].sent
\* counts the chunks read from the output of p, and view[r].got lists the
\* chunks yielded to r by their position in that output.
StreamRead(r) ==
    /\ pc[<<r, "h">>] = "reading"
    /\ Alive(view[r].proc)
    /\ procs[view[r].proc].sent < MaxChunks
    /\ LET p == view[r].proc
           chunk == ChunkRead(procs[p].sent, view[r].got)
       IN /\ procs' = [procs EXCEPT ![p].sent = @ + 1]
          /\ view' = [view EXCEPT ![r].resp = "stream",
                                  ![r].got = Append(@, chunk)]
    /\ UNCHANGED <<call, periph, current_camera_process, camera_running, streaming_mode,
                   settings, camera_process_lock, streaming_mode_lock, hls_files,
                   kind, body, pc, cam, pid, still, hist>>

\* The loop ends: process.poll() is not None, or the client went away
\* (GeneratorExit at the yield).  The generator terminates nothing.
StreamEnd(r) ==
    /\ pc[<<r, "h">>] = "reading"
    /\ ~Alive(view[r].proc) \/ view[r].resp = "stream"
    /\ view' = [view EXCEPT ![r].resp = IF @ = "stream" THEN @ ELSE "empty"]
    /\ pc' = [pc EXCEPT ![<<r, "h">>] = "done"]
    /\ UNCHANGED <<call, periph, prog, kind, body, cam, pid, still, hist>>

\* The files a client may ask /hls/ for.
HlsNames == {"segment_000.ts", "stream.m3u8"}

\* serve_hls: send_from_directory(HLS_DIR, filename), 404 when it raises.
ServeHls(r) ==
    /\ kind[r] = "serve_hls"
    /\ pc[<<r, "h">>] = "serve"
    /\ \E filename \in HlsNames :
          view' = [view EXCEPT ![r].resp = IF filename \in hls_files
                                           THEN "file" ELSE "404"]
    /\ pc' = [pc EXCEPT ![<<r, "h">>] = "done"]
    /\ UNCHANGED <<call, periph, prog, kind, body, cam, pid, still, hist>>

----------------------------------------------------------------------------
(* Camera start threads: start_h264_camera and start_vlc_camera             *)

\* The pipeline the thread launches and the settings its command line is
\* built from.  start_h264_camera first empties HLS_DIR of *.ts and *.m3u8;
\* start_vlc_camera does not touch HLS_DIR.
CamBuild(o) ==
    /\ pc[<<o, "c">>] = "build"
    /\ hls_files' = IF cam[o].kind = "hls" THEN {} ELSE hls_files
    /\ cam' = [cam EXCEPT ![o].gen = settings_gen]
    /\ pc' = [pc EXCEPT ![<<o, "c">>] = "popen"]
    /\ UNCHANGED <<view, call, periph, current_camera_process, camera_running, streaming_mode, settings,
                   camera_process_lock, streaming_mode_lock, procs, kind, body,
                   pid, still, hist>>

\* The process subprocess.Popen returns.
Spawned(c) == [kind |-> c.kind, state |-> "running", gen |-> c.gen, sent |-> 0]

\* camera_process = subprocess.Popen(...), no lock held.
CamPopen(o) ==
    /\ pc[<<o, "c">>] = "popen"
    /\ procs' = Append(procs, Spawned(cam[o]))
    /\ pid' = [pid EXCEPT ![o] = Len(procs) + 1]
    /\ spawns' = [spawns EXCEPT ![o] = @ + 1]
    /\ pc' = [pc EXCEPT ![<<o, "c">>] = "settle"]
    /\ UNCHANGED <<view, call, periph, current_camera_process, camera_running, streaming_mode, settings,
                   camera_process_lock, streaming_mode_lock, hls_files, kind, body,
                   cam, still, settings_gen, req_gen, stops, overlap,
                   mode_at_begin, registered>>

\* A start that goes on to register whatever the poll says.
AfterSettleIgnoresPoll(alive) == "register"

\* if camera_process.poll() is not None: return False; otherwise go on to
\* register the handle.
AfterSettle(alive) == IF alive THEN "register" ELSE "done"

\* time.sleep(settle); if camera_process.poll() is not None: return False
CamSettle(o) ==
    /\ pc[<<o, "c">>] = "settle"
    /\ pc' = [pc EXCEPT ![<<o, "c">>] = AfterSettle(Alive(pid[o]))]
    /\ UNCHANGED <<view, call, periph, prog, kind, body, cam, pid, still, hist>>

\* with camera_process_lock: current_camera_process = camera_process;
\*                           camera_running = True
CamRegister(o) ==
    /\ pc[<<o, "c">>] = "register"
    /\ camera_process_lock = NoThread
    /\ current_camera_process' = pid[o]
    /\ camera_running' = TRUE
    /\ registered' = [registered EXCEPT ![o] = TRUE]
    /\ pc' = [pc EXCEPT ![<<o, "c">>] = "done"]
    /\ UNCHANGED <<view, call, periph, streaming_mode, settings, camera_process_lock,
                   streaming_mode_lock, procs, hls_files, kind, body, cam, pid,
                   still, settings_gen, req_gen, stops, spawns, overlap,
                   mode_at_begin>>

----------------------------------------------------------------------------
(* The environment: the external processes                                  *)

\* A capture process exits on its own (camera busy, bad flags, crash).
ProcExit(p) ==
    /\ Alive(p)
    /\ procs' = [procs EXCEPT ![p].state = "exited"]
    /\ UNCHANGED <<view, call, periph, current_camera_process, camera_running, streaming_mode, settings,
                   camera_process_lock, streaming_mode_lock, hls_files, kind, body,
                   pc, cam, pid, still, hist>>

\* The ffmpeg stage of a running HLS pipeline writes segments and playlist.
HlsWrite(p) ==
    /\ Alive(p)
    /\ procs[p].kind = "hls"
    /\ hls_files' = {"segment_000.ts", "stream.m3u8"}
    /\ UNCHANGED <<view, call, periph, current_camera_process, camera_running, streaming_mode, settings,
                   camera_process_lock, streaming_mode_lock, procs, kind, body,
                   pc, cam, pid, still, hist>>

\* Every step but the arrival of a request.
Step ==
    \/ \E t \in Threads : StopPkill(t)
    \/ \E t \in Threads : StopTerminate(t)
    \/ \E r \in Req : ApplyUpdate(r)
    \/ \E r \in Req : ApplyRestart(r)
    \/ \E r \in Req : StartStreamSpawn(r)
    \/ \E r \in Req : ResetUpdate(r)
    \/ \E r \in Req : ResetFinish(r)
    \/ \E r \in Req : RestartServiceStart(r)
    \/ \E r \in Req : SnapshotStill(r)
    \/ \E r \in Req : SnapshotReturn(r)
    \/ \E r \in Req : ModeLock(r)
    \/ \E r \in Req : SetMode(r)
    \/ \E r \in Req : ModeUnlock(r)
    \/ \E r \in Req : StopVlcMode(r)
    \/ \E r \in Req : StopVlcModeRelease(r)
    \/ \E r \in Req : FeedGate(r)
    \/ \E r \in Req : FeedBusy(r)
    \/ \E r \in Req : FeedPopen(r)
    \/ \E r \in Req : FeedRegister(r)
    \/ \E r \in Req : FeedFrame(r)
    \/ \E r \in Req : FeedProcessEnded(r)
    \/ \E r \in Req : FeedStall(r)
    \/ \E r \in Req : FeedStallRetry(r)
    \/ \E r \in Req : FeedPopenRaises(r)
    \/ \E r \in Req : FeedFallback(r)
    \/ \E r \in Req : FeedDisconnect(r)
    \/ \E r \in Req : FeedRelease(r)
    \/ \E r \in Req : StreamCheck(r)
    \/ \E r \in Req : StreamAttach(r)
    \/ \E r \in Req : StreamRead(r)
    \/ \E r \in Req : StreamEnd(r)
    \/ \E r \in Req : ServeHls(r)
    \/ \E o \in Owners : CamBuild(o)
    \/ \E o \in Owners : CamPopen(o)
    \/ \E o \in Owners : CamSettle(o)
    \/ \E o \in Owners : CamRegister(o)
    \/ \E p \in Pids : ProcExit(p)
    \/ \E p \in Pids : HlsWrite(p)

\* Requests arrive at any time once the boot thread has brought the camera
\* up (or failed to): handlers and background threads interleave freely.
Arrive(r) == ~Active(Boot) /\ Begin(r)

Next ==
    \/ \E r \in Req : Arrive(r)
    \/ Step

Spec == Init /\ [][Next]_vars

\* Viewers of /video_feed and /reset requests, interleaving freely.
ArriveFeed(r) == Arrive(r) /\ kind'[r] \in {"video_feed", "reset"}

NextFeed ==
    \/ \E r \in Req : ArriveFeed(r)
    \/ \E t \in Threads : StopPkill(t)
    \/ \E t \in Threads : StopTerminate(t)
    \/ \E r \in Req : ResetUpdate(r)
    \/ \E r \in Req : ResetFinish(r)
    \/ \E r \in Req : FeedGate(r)
    \/ \E r \in Req : FeedBusy(r)
    \/ \E r \in Req : FeedPopen(r)
    \/ \E r \in Req : FeedRegister(r)
    \/ \E r \in Req : FeedFrame(r)
    \/ \E r \in Req : FeedProcessEnded(r)
    \/ \E r \in Req : FeedStall(r)
    \/ \E r \in Req : FeedStallRetry(r)
    \/ \E r \in Req : FeedPopenRaises(r)
    \/ \E r \in Req : FeedFallback(r)
    \/ \E r \in Req : FeedDisconnect(r)
    \/ \E r \in Req : FeedRelease(r)
    \/ \E o \in Owners : CamBuild(o)
    \/ \E o \in Owners : CamPopen(o)
    \/ \E o \in Owners : CamSettle(o)
    \/ \E o \in Owners : CamRegister(o)
    \/ \E p \in Pids : ProcExit(p)
    \/ \E p \in Pids : HlsWrite(p)

SpecFeed == Init /\ [][NextFeed]_vars

\* The same requests with one more client.
NextViewers ==
    \/ \E r \in Viewers : ArriveFeed(r)
    \/ \E t \in Threads : StopPkill(t)
    \/ \E t \in Threads : StopTerminate(t)
    \/ \E r \in Viewers : ResetUpdate(r)
    \/ \E r \in Viewers : ResetFinish(r)
    \/ \E r \in Viewers : FeedGate(r)
    \/ \E r \in Viewers : FeedBusy(r)
    \/ \E r \in Viewers : FeedPopen(r)
    \/ \E r \in Viewers : FeedRegister(r)
    \/ \E r \in Viewers : FeedFrame(r)
    \/ \E r \in Viewers : FeedProcessEnded(r)
    \/ \E r \in Viewers : FeedStall(r)
    \/ \E r \in Viewers : FeedStallRetry(r)
    \/ \E r \in Viewers : FeedPopenRaises(r)
    \/ \E r \in Viewers : FeedFallback(r)
    \/ \E r \in Viewers : FeedDisconnect(r)
    \/ \E r \in Viewers : FeedRelease(r)
    \/ \E o \in Owners : CamBuild(o)
    \/ \E o \in Owners : CamPopen(o)
    \/ \E o \in Owners : CamSettle(o)
    \/ \E o \in Owners : CamRegister(o)
    \/ \E p \in Pids : ProcExit(p)
    \/ \E p \in Pids : HlsWrite(p)

SpecViewers == Init /\ [][NextViewers]_vars

\* A switch to the raw tunnel and the /stream.h264 clients that read it.
ArriveTunnel(r) ==
    /\ Arrive(r)
    /\ kind'[r] = IF r = 1 THEN "vlc" ELSE "stream_h264"

NextTunnel ==
    \/ \E r \in Viewers : ArriveTunnel(r)
    \/ \E t \in Threads : StopPkill(t)
    \/ \E t \in Threads : StopTerminate(t)
    \/ \E r \in Viewers : ModeLock(r)
    \/ \E r \in Viewers : SetMode(r)
    \/ \E r \in Viewers : ModeUnlock(r)
    \/ \E r \in Viewers : StreamCheck(r)
    \/ \E r \in Viewers : StreamAttach(r)
    \/ \E r \in Viewers : StreamRead(r)
    \/ \E r \in Viewers : StreamEnd(r)
    \/ \E o \in Owners : CamBuild(o)
    \/ \E o \in Owners : CamPopen(o)
    \/ \E o \in Owners : CamSettle(o)
    \/ \E o \in Owners : CamRegister(o)
    \/ \E p \in Pids : ProcExit(p)
    \/ \E p \in Pids : HlsWrite(p)

SpecTunnel == Init /\ [][NextTunnel]_vars

\* Exact fractions <<numerator, denominator>> in lowest terms, denominator
\* positive.
RECURSIVE Gcd(_, _)
Gcd(a, b) == IF b = 0 THEN a ELSE Gcd(b, a % b)
Abs(a) == IF a < 0 THEN 0 - a ELSE a
Frac(n, d) ==
    LET g == Gcd(Abs(n), d)
    IN  IF n < 0 THEN <<0 - (Abs(n) \div g), d \div g>> ELSE <<n \div g, d \div g>>
FracPositive(a) == a[1] > 0
\* 0.7 * a + 0.3 * b
Smooth(a, b) == Frac(7 * a[1] * b[2] + 3 * b[1] * a[2], 10 * a[2] * b[2])

\* kbps = (bytes_diff * 8) / (time_diff * 1000)
RawRate(bytes_diff, time_diff) == Frac(bytes_diff * 8, time_diff * 1000)

\* calculate_bandwidth on bandwidth_data bd, time.time() being current_time
\* and the *.ts files of HLS_DIR adding up to total_bytes.
calculate_bandwidth(bd, current_time, total_bytes) ==
    LET time_diff == current_time - bd.last_check_time
        kbps == RawRate(total_bytes - bd.last_total_bytes, time_diff)
    IN  [last_check_time |-> current_time,
         last_total_bytes |-> total_bytes,
         current_kbps |->
            IF bd.last_check_time > 0 /\ time_diff > 0
            THEN IF FracPositive(bd.current_kbps)
                 THEN Smooth(bd.current_kbps, kbps)
                 ELSE kbps
            ELSE bd.current_kbps]

\* calculate_bandwidth on its own: called again and again as time passes and
\* segments come and go.  call.ret keeps bandwidth_data as it was before the
\* call and the number of rates computed so far.
SampleTimes == 1..MaxTime
ByteTotals == {125 * k : k \in 0..MaxByteUnits}

InitBand ==
    /\ call = [fn |-> "calculate_bandwidth", args |-> << >>, ret |-> <<NoBandwidth, 0>>]
    /\ bandwidth_data = NoBandwidth
    /\ current_camera_process = None
    /\ camera_running = FALSE
    /\ streaming_mode = "hls"
    /\ settings = initial_settings
    /\ settings_file = NoFile
    /\ file_gen = 0
    /\ mqtt_client = 0
    /\ camera_process_lock = NoThread
    /\ streaming_mode_lock = NoThread
    /\ procs = << >>
    /\ hls_files = {}
    /\ kind = [o \in Owners |-> "none"]
    /\ body = [o \in Owners |-> NoBody]
    /\ pc = [t \in Threads |-> "idle"]
    /\ cam = [o \in Owners |-> [kind |-> "hls", gen |-> 0]]
    /\ pid = [o \in Owners |-> None]
    /\ still = [o \in Owners |-> "none"]
    /\ view = [o \in Owners |-> NoView]
    /\ settings_gen = 0
    /\ req_gen = [o \in Owners |-> 0]
    /\ stops = [o \in Owners |-> 0]
    /\ spawns = [o \in Owners |-> 0]
    /\ overlap = [o \in Owners |-> {}]
    /\ mode_at_begin = [o \in Owners |-> "hls"]
    /\ registered = [o \in Owners |-> FALSE]

CallCalculateBandwidth ==
    /\ call.fn = "calculate_bandwidth"
    /\ \E current_time \in SampleTimes, total_bytes \in ByteTotals :
          /\ current_time >= bandwidth_data.last_check_time
          /\ bandwidth_data' = calculate_bandwidth(bandwidth_data, current_time, total_bytes)
          /\ call' = [call EXCEPT
                        !.args = <<current_time, total_bytes>>,
                        !.ret = <<bandwidth_data,
                                  IF bandwidth_data.last_check_time > 0
                                     /\ current_time > bandwidth_data.last_check_time
                                  THEN call.ret[2] + 1 ELSE call.ret[2]>>]
    /\ UNCHANGED <<prog, settings_file, mqtt_client, file_gen, kind, body, pc,
                   cam, pid, still, view, hist>>

NextBand == CallCalculateBandwidth

SpecBand == InitBand /\ [][NextBand]_vars

\* The frame extraction of generate_frames on its own: the bytes the capture
\* process writes, read ReadSize at a time.
\* jpeg_start = b'\xff\xd8', jpeg_end = b'\xff\xd9'
jpeg_start == <<255, 216>>
jpeg_end == <<255, 217>>
UpstreamBytes == {0, 216, 217, 255}

RECURSIVE Streams(_)
\* Every byte sequence of length n.
Streams(n) ==
    IF n = 0 THEN {<< >>}
    ELSE {Append(u, b) : u \in Streams(n - 1), b \in UpstreamBytes}

\* bytes.find(sub, start) with positions counted from 1; 0 stands for -1.
Find(buf, sub, start) ==
    LET hits == {i \in start..(Len(buf) - Len(sub) + 1) :
                    SubSeq(buf, i, i + Len(sub) - 1) = sub}
    IN IF hits = {} THEN 0 ELSE CHOOSE i \in hits : \A j \in hits : i <= j

\* frame_buffer[-2048:]
KeepLast(buf) ==
    IF Len(buf) <= KeepBytes THEN buf
    ELSE SubSeq(buf, Len(buf) - KeepBytes + 1, Len(buf))

\* A buffer that drops the start marker only and keeps the rest of the frame.
AfterFrameKeepsBody(buf, start_idx, end_idx) == SubSeq(buf, start_idx + 2, Len(buf))

\* frame_buffer = frame_buffer[end_idx + 2:]
AfterFrame(buf, start_idx, end_idx) == SubSeq(buf, end_idx + 2, Len(buf))

\* One pass of while frames_processed < 1 over the buffer: the frame yielded
\* (empty when none), where it starts in the buffer, and the buffer left.
ExtractFrame(buf) ==
    LET start_idx == Find(buf, jpeg_start, 1)
        end_idx == Find(buf, jpeg_end, start_idx + 2)
    IN IF start_idx = 0
       THEN [jpeg_frame |-> << >>, start |-> 0, frame_buffer |-> KeepLast(buf)]
       ELSE IF end_idx = 0
       THEN [jpeg_frame |-> << >>, start |-> 0, frame_buffer |-> buf]
       ELSE [jpeg_frame |-> SubSeq(buf, start_idx, end_idx + 1),
             start |-> start_idx,
             frame_buffer |-> AfterFrame(buf, start_idx, end_idx)]

\* What one read returns, against the length of a frame: a part of a frame,
\* or several frames at once.
ReadSizes == {ReadSize, MaxBytes}

\* call.args is the upstream and the read size; call.ret holds the bytes read so far, the
\* buffer, the number of upstream bytes already dropped from its front, and
\* the frames yielded, each with the upstream position of its first byte.
InitJpeg ==
    /\ \E n \in 0..MaxBytes : \E upstream \in Streams(n) : \E size \in ReadSizes :
          call = [fn |-> "generate_frames", args |-> <<upstream, size>>,
                  ret |-> [pos |-> 0, frame_buffer |-> << >>, dropped |-> 0,
                           frames |-> << >>]]
    /\ bandwidth_data = NoBandwidth
    /\ current_camera_process = None
    /\ camera_running = FALSE
    /\ streaming_mode = "hls"
    /\ settings = initial_settings
    /\ settings_file = NoFile
    /\ file_gen = 0
    /\ mqtt_client = 0
    /\ camera_process_lock = NoThread
    /\ streaming_mode_lock = NoThread
    /\ procs = << >>
    /\ hls_files = {}
    /\ kind = [o \in Owners |-> "none"]
    /\ body = [o \in Owners |-> NoBody]
    /\ pc = [t \in Threads |-> "idle"]
    /\ cam = [o \in Owners |-> [kind |-> "hls", gen |-> 0]]
    /\ pid = [o \in Owners |-> None]
    /\ still = [o \in Owners |-> "none"]
    /\ view = [o \in Owners |-> NoView]
    /\ settings_gen = 0
    /\ req_gen = [o \in Owners |-> 0]
    /\ stops = [o \in Owners |-> 0]
    /\ spawns = [o \in Owners |-> 0]
    /\ overlap = [o \in Owners |-> {}]
    /\ mode_at_begin = [o \in Owners |-> "hls"]
    /\ registered = [o \in Owners |-> FALSE]

\* chunk = process.stdout.read(16384) returns data: frame_buffer += chunk,
\* then at most one frame is cut out of the buffer and yielded.  The buffered
\* read returns as many bytes as asked for, or what is left when the process has ended.
ReadChunk ==
    /\ call.fn = "generate_frames"
    /\ LET upstream == call.args[1]
           st == call.ret
           size == call.args[2]
           last == IF st.pos + size <= Len(upstream)
                   THEN st.pos + size ELSE Len(upstream)
           chunk == SubSeq(upstream, st.pos + 1, last)
           buf == st.frame_buffer \o chunk
           out == ExtractFrame(buf)
       IN /\ st.pos < Len(upstream)
          /\ call' = [call EXCEPT
                        !.ret = [pos |-> last,
                                 frame_buffer |-> out.frame_buffer,
                                 dropped |-> st.dropped + Len(buf)
                                                - Len(out.frame_buffer),
                                 frames |-> IF out.start = 0 THEN st.frames
                                            ELSE Append(st.frames,
                                                   [payload |-> out.jpeg_frame,
                                                    at |-> st.dropped + out.start])]]
    /\ UNCHANGED <<prog, periph, kind, body, pc, cam, pid, still, view, hist>>

NextJpeg == ReadChunk

SpecJpeg == InitJpeg /\ [][NextJpeg]_vars

\* The command lines of the three transports, built from settings.  A command
\* is a sequence of options, each a flag alone or a flag with its value.
\* The settings every command line reads, at their module-level values.
camera_settings ==
    [width |-> 1280, height |-> 720, framerate |-> 15, brightness |-> 0,
     contrast |-> 1, saturation |-> 1, sharpness |-> 1, exposure |-> "normal",
     metering |-> "centre", awb |-> "auto", rotation |-> 0, hflip |-> FALSE,
     vflip |-> FALSE, ev |-> 0, shutter |-> 0, gain |-> 0, denoise |-> "auto",
     hdr |-> "off", quality |-> 93, zoom |-> 1]

\* The four rotations of the settings page, and one POSTed by hand.
MenuRotations == {0, 90, 180, 270}
Rotations == MenuRotations \cup {45}

\* The values /api/settings may have written into the settings.
CameraOptions ==
    [rotation : Rotations, brightness : {0, 1}, ev : {0, 1},
     shutter : {0, 1000}, gain : {0, 2}, denoise : {"auto", "off"},
     hdr : {"off", "auto"}, hflip : BOOLEAN, vflip : BOOLEAN, zoom : {1, 2}]

\* cmd.extend([...]) when the condition holds
When(cond, options) == IF cond THEN options ELSE << >>

\* The options every rpicam-vid command starts with.
CaptureBase(s, codec) ==
    << <<"rpicam-vid">>, <<"--nopreview">>, <<"--codec", codec>>,
       <<"--width", s.width>>, <<"--height", s.height>>,
       <<"--framerate", s.framerate>>, <<"--timeout", 0>>,
       <<"--brightness", s.brightness>>, <<"--contrast", s.contrast>>,
       <<"--saturation", s.saturation>>, <<"--sharpness", s.sharpness>>,
       <<"--exposure", s.exposure>>, <<"--metering", s.metering>>,
       <<"--awb", s.awb>> >>

\* if settings['ev'] != 0: ... if settings['vflip']: cmd.append('--vflip')
AdvancedOptions(s) ==
    When(s.ev # 0, << <<"--ev", s.ev>> >>)
    \o When(s.shutter > 0, << <<"--shutter", s.shutter>> >>)
    \o When(s.gain > 0, << <<"--gain", s.gain>> >>)
    \o When(s.denoise # "auto", << <<"--denoise", s.denoise>> >>)
    \o When(s.hdr # "off", << <<"--hdr", s.hdr>> >>)
    \o When(s.hflip, << <<"--hflip">> >>)
    \o When(s.vflip, << <<"--vflip">> >>)

\* zoom_factor > 1.0: --roi x,y,w,h with w = h = 1 / zoom, x = y = (1 - w) / 2
RoiOption(s) ==
    When(s.zoom > 1,
         << <<"--roi", <<Frac(s.zoom - 1, 2 * s.zoom), Frac(s.zoom - 1, 2 * s.zoom),
                         Frac(1, s.zoom), Frac(1, s.zoom)>> >> >>)

\* A pipeline that never re-encodes.
needs_transpose_never(rotation) == FALSE

\* needs_transpose = rotation in (90, 270)
needs_transpose(rotation) == rotation \in {90, 270}

\* transpose_filter = 'transpose=1' if rotation == 90 else 'transpose=2'
transpose_filter(rotation) == IF rotation = 90 THEN "transpose=1" ELSE "transpose=2"

\* start_h264_camera: the rpicam-vid command of the HLS pipeline.
HlsCaptureCommand(s) ==
    CaptureBase(s, "h264")
    \o << <<"--inline">>, <<"-o", "-">> >>
    \o When(~needs_transpose(s.rotation) /\ s.rotation # 0,
            << <<"--rotation", s.rotation>> >>)
    \o AdvancedOptions(s)
    \o RoiOption(s)

\* start_h264_camera: the ffmpeg command of the HLS pipeline.
HlsTranscoderCommand(s) ==
    << <<"ffmpeg">>, <<"-hide_banner">>, <<"-loglevel", "warning">>,
       <<"-f", "h264">>, <<"-i", "-">> >>
    \o (IF needs_transpose(s.rotation)
        THEN << <<"-vf", transpose_filter(s.rotation)>>, <<"-c:v", "libx264">>,
                <<"-preset", "ultrafast">>, <<"-tune", "zerolatency">>,
                <<"-pix_fmt", "yuv420p">>,
                <<"-x264-params", "keyint=30:min-keyint=30:scenecut=0">> >>
        ELSE << <<"-c:v", "copy">> >>)
    \o << <<"-f", "hls">>, <<"-hls_time", 1>>, <<"-hls_list_size", 5>>,
          <<"-hls_flags", "delete_segments+append_list">>,
          <<"-hls_segment_filename", "segment_%03d.ts">>, <<"stream.m3u8">> >>

\* start_vlc_camera: the rpicam-vid command of the raw tunnel.
VlcCaptureCommand(s) ==
    CaptureBase(s, "h264")
    \o << <<"--inline">>, <<"-o", "-">> >>
    \o When(s.rotation \in {0, 180}, << <<"--rotation", s.rotation>> >>)
    \o AdvancedOptions(s)
    \o RoiOption(s)

\* generate_frames: the rpicam-vid command of a viewer; the quality is
\* min(settings['quality'], 50).
MjpegCaptureCommand(s) ==
    CaptureBase(s, "mjpeg")
    \o << <<"--rotation", s.rotation>>,
          <<"--quality", IF s.quality < 50 THEN s.quality ELSE 50>>,
          <<"-o", "-">> >>
    \o AdvancedOptions(s)

Transports == {"hls", "vlc", "mjpeg"}

\* The command lines a transport is started with.
BuildCommand(transport, s) ==
    CASE transport = "hls" ->
           [capture |-> HlsCaptureCommand(s), transcoder |-> HlsTranscoderCommand(s)]
      [] transport = "vlc" ->
           [capture |-> VlcCaptureCommand(s), transcoder |-> << >>]
      [] transport = "mjpeg" ->
           [capture |-> MjpegCaptureCommand(s), transcoder |-> << >>]

NoCommand == [capture |-> << >>, transcoder |-> << >>]

\* Any settings the page can have applied, and the transport to start.
InitCmd ==
    /\ \E o \in CameraOptions : settings = Update(camera_settings, o)
    /\ \E transport \in Transports :
          call = [fn |-> "build_command", args |-> <<transport>>, ret |-> NoCommand]
    /\ bandwidth_data = NoBandwidth
    /\ current_camera_process = None
    /\ camera_running = FALSE
    /\ streaming_mode = "hls"
    /\ settings_file = NoFile
    /\ file_gen = 0
    /\ mqtt_client = 0
    /\ camera_process_lock = NoThread
    /\ streaming_mode_lock = NoThread
    /\ procs = << >>
    /\ hls_files = {}
    /\ kind = [o \in Owners |-> "none"]
    /\ body = [o \in Owners |-> NoBody]
    /\ pc = [t \in Threads |-> "idle"]
    /\ cam = [o \in Owners |-> [kind |-> "hls", gen |-> 0]]
    /\ pid = [o \in Owners |-> None]
    /\ still = [o \in Owners |-> "none"]
    /\ view = [o \in Owners |-> NoView]
    /\ settings_gen = 0
    /\ req_gen = [o \in Owners |-> 0]
    /\ stops = [o \in Owners |-> 0]
    /\ spawns = [o \in Owners |-> 0]
    /\ overlap = [o \in Owners |-> {}]
    /\ mode_at_begin = [o \in Owners |-> "hls"]
    /\ registered = [o \in Owners |-> FALSE]

\* The start function builds its command lines from the settings.
CallBuildCommand ==
    /\ call.fn = "build_command"
    /\ call.ret = NoCommand
    /\ call' = [call EXCEPT !.ret = BuildCommand(call.args[1], settings)]
    /\ UNCHANGED <<prog, periph, kind, body, pc, cam, pid, still, view, hist>>

NextCmd == CallBuildCommand

SpecCmd == InitCmd /\ [][NextCmd]_vars

\* validate_resolution on its own: any requested width and height, then the
\* call.
RequestedWidths == {160 * k : k \in 1..MaxWidthUnits}
RequestedHeights == {120 * k : k \in 1..MaxHeightUnits}

InitRes ==
    /\ \E width \in RequestedWidths, height \in RequestedHeights :
          call = [fn |-> "validate_resolution", args |-> <<width, height>>, ret |-> << >>]
    /\ current_camera_process = None
    /\ camera_running = FALSE
    /\ streaming_mode = "hls"
    /\ settings = initial_settings
    /\ settings_file = NoFile
    /\ file_gen = 0
    /\ mqtt_client = 0
    /\ bandwidth_data = NoBandwidth
    /\ camera_process_lock = NoThread
    /\ streaming_mode_lock = NoThread
    /\ procs = << >>
    /\ hls_files = {}
    /\ kind = [o \in Owners |-> "none"]
    /\ body = [o \in Owners |-> NoBody]
    /\ pc = [t \in Threads |-> "idle"]
    /\ cam = [o \in Owners |-> [kind |-> "hls", gen |-> 0]]
    /\ pid = [o \in Owners |-> None]
    /\ still = [o \in Owners |-> "none"]
    /\ view = [o \in Owners |-> NoView]
    /\ settings_gen = 0
    /\ req_gen = [o \in Owners |-> 0]
    /\ stops = [o \in Owners |-> 0]
    /\ spawns = [o \in Owners |-> 0]
    /\ overlap = [o \in Owners |-> {}]
    /\ mode_at_begin = [o \in Owners |-> "hls"]
    /\ registered = [o \in Owners |-> FALSE]

CallValidateResolution ==
    /\ call.fn = "validate_resolution"
    /\ call.ret = << >>
    /\ LET v == validate_resolution(call.args[1], call.args[2])
       IN  call' = [call EXCEPT !.ret = <<v.res, v.warning>>]
    /\ UNCHANGED <<prog, periph, kind, body, pc, cam, pid, still, view, hist>>

NextRes == CallValidateResolution

SpecRes == InitRes /\ [][NextRes]_vars

\* One request at a time: a request arrives only when the boot thread, every
\* earlier handler and every background thread have finished.
BeginAlone(r) == Quiescent /\ Begin(r)

NextSeq ==
    \/ \E r \in Req : BeginAlone(r)
    \/ Step

SpecSeq == Init /\ [][NextSeq]_vars

\* One request at a time, starting from any settings file.
InitLoad == \E blob \in PersistedBlobs : InitWith(blob)

SpecLoad == InitLoad /\ [][NextSeq]_vars

\* /snapshot requests one at a time, with a handler that may raise after it
\* has restarted the stream.
ArriveSnapshot(r) == BeginAlone(r) /\ kind'[r] = "snapshot"

NextSnap ==
    \/ \E r \in Req : ArriveSnapshot(r)
    \/ \E t \in Threads : StopPkill(t)
    \/ \E t \in Threads : StopTerminate(t)
    \/ \E r \in Req : SnapshotStill(r)
    \/ \E r \in Req : SnapshotReturn(r)
    \/ \E r \in Req : SnapshotRaise(r)
    \/ \E r \in Req : SnapshotExcept(r)
    \/ \E o \in Owners : CamBuild(o)
    \/ \E o \in Owners : CamPopen(o)
    \/ \E o \in Owners : CamSettle(o)
    \/ \E o \in Owners : CamRegister(o)
    \/ \E p \in Pids : ProcExit(p)
    \/ \E p \in Pids : HlsWrite(p)

SpecSnap == Init /\ [][NextSnap]_vars

----------------------------------------------------------------------------
(* Claims                                                                   *)

\* The request has arrived and all of its threads have finished.
Done(r) == kind[r] # "none" /\ ~Active(r)
CamThread(o) == <<o, "c">>
\* The camera thread of o executes subprocess.Popen in this step.
Launches(o) == pc[CamThread(o)] = "popen" /\ pc'[CamThread(o)] = "settle"

\* C1: in every reachable state at most one capture process launched by
\* start_h264_camera or start_vlc_camera is alive.
C1_AtMostOneCaptureAlive == Cardinality(AliveCaptures) <= 1

\* C2: after concurrent /apply requests have returned and all their
\* background threads have finished, every launch having succeeded (each
\* request's camera thread registered its handle and no process exited by
\* itself), exactly one capture process is alive.
C2_ExactlyOneAfterConcurrentApplies ==
    ( /\ Quiescent
      /\ \A r \in Req : /\ kind[r] = "apply"
                        /\ registered[r]
                        /\ overlap[r] \cap Req # {}
      /\ \A p \in Pids : procs[p].state # "exited" )
    => Cardinality(AliveCaptures) = 1

\* C3: a request's start runs entirely under camera_process_lock: a camera
\* thread in its settle wait (spawned, not yet registered) holds the lock, and no two
\* camera threads are between spawn and registration at the same time.
C3_StartRunsUnderLock ==
    /\ \A o \in Req :
         pc[CamThread(o)] = "settle" => camera_process_lock = CamThread(o)
    /\ \A o1, o2 \in Req :
         ( /\ pc[CamThread(o1)] \in {"settle", "register"}
           /\ pc[CamThread(o2)] \in {"settle", "register"} ) => o1 = o2

\* C4: an /apply whose body has only non-disruptive keys never calls
\* stop_camera_process and never launches a capture process.
C4_NonDisruptiveNoRestart ==
    \A r \in Req :
        (kind[r] = "apply" /\ ~Disruptive(body[r])) => (stops[r] = 0 /\ spawns[r] = 0)

\* C5 as stated: a disruptive /apply handled alone runs stop_camera_process
\* exactly once and launches exactly one capture process.
C5_OneStopOneStart ==
    \A r \in Req :
        (kind[r] = "apply" /\ Disruptive(body[r]) /\ Done(r))
            => (stops[r] = 1 /\ spawns[r] = 1)

\* C5 as amended: a disruptive /apply handled alone runs stop_camera_process
\* exactly twice (once in the handler, once in start_stream) and launches
\* exactly one capture process, after both stops have returned.
C5_TwoStopsOneStart ==
    \A r \in Req :
        (kind[r] = "apply" /\ Disruptive(body[r]))
            => /\ stops[r] <= 2
               /\ spawns[r] <= 1
               /\ spawns[r] = 1 => /\ stops[r] = 2
                                   /\ pc[<<r, "h">>] = "done"
                                   /\ pc[<<r, "s">>] = "done"
               /\ Done(r) => (stops[r] = 2 /\ spawns[r] = 1)

C5_Witness ==
    \E r \in Req :
        kind[r] = "apply" /\ Disruptive(body[r]) /\ Done(r) /\ spawns[r] = 1

\* C6: once the restart of an /apply has completed (its camera thread has
\* registered its handle), the live registered process was launched from
\* settings that include that request's update, whatever other /apply
\* requests ran concurrently.
C6_RegisteredReflectsUpdate ==
    \A r \in Req :
        ( /\ kind[r] = "apply"
          /\ registered[r]
          /\ Done(r)
          /\ \A o \in overlap[r] : kind[o] = "apply"
          /\ current_camera_process # None
          /\ Alive(current_camera_process) )
        => procs[current_camera_process].gen >= req_gen[r]

\* C7: the session a /snapshot handled alone starts again is the pipeline of
\* the streaming_mode that was active when the request arrived, whatever the
\* outcome of the still capture.
C7_SnapshotRestoresSession ==
    \A r \in Req :
        (kind[r] = "snapshot" /\ overlap[r] = {} /\ pid[r] # None)
            => procs[pid[r]].kind = mode_at_begin[r]

\* C8: when GET /vlc switches from 'hls' to 'vlc', HLS_DIR holds no segment
\* or playlist file at the moment the raw-tunnel capture process is spawned.
C8_HlsArtifactsGoneBeforeTunnel ==
    [][ \A r \in Req :
          (kind[r] = "vlc" /\ mode_at_begin[r] = "hls" /\ Launches(r))
              => hls_files = {} ]_vars

\* C9: every capture process launched by a restart of /apply, /snapshot or
\* /restart_service is the pipeline of the current streaming_mode.
C9_RestartFollowsMode ==
    [][ \A r \in Req :
          (kind[r] \in {"apply", "snapshot", "restart"} /\ Launches(r))
              => cam[r].kind = streaming_mode ]_vars

\* No session is active: no handle, or a handle whose process has exited.
NoActiveSession == current_camera_process = None \/ ~Alive(current_camera_process)

\* C10: stop_camera_process leaves camera_running, streaming_mode and
\* settings alone; called with no active session it leaves
\* current_camera_process as it is; and a second call right after the first
\* would change nothing.
C10_StopIdempotent ==
    [][ \A t \in Threads :
          /\ (pc[t] = "stop1" /\ pc'[t] = "stop2")
                => /\ camera_running' = camera_running
                   /\ streaming_mode' = streaming_mode
                   /\ settings' = settings
                   /\ current_camera_process' = current_camera_process
          /\ (pc[t] = "stop2" /\ pc'[t] # "stop2")
                => /\ camera_running' = camera_running
                   /\ streaming_mode' = streaming_mode
                   /\ settings' = settings
                   /\ NoActiveSession => current_camera_process' = current_camera_process
                   /\ \A slow \in BOOLEAN :
                        StopCameraProcess(procs', current_camera_process', slow)
                            = [procs |-> procs', cur |-> current_camera_process'] ]_vars

\* A second stop in succession (start_stream's, right after the handler's)
\* is polling a handle with no active session behind it.
C10_Witness ==
    \E r \in Req :
        /\ kind[r] = "apply"
        /\ pc[<<r, "s">>] = "stop2"
        /\ stops[r] = 2
        /\ NoActiveSession

\* C11 (as claimed): whenever stop_camera_process returns,
\* current_camera_process is None, whatever state the tracked process was in
\* when the call began.
C11_StopClearsReference ==
    [][ \A t \in Threads :
          (pc[t] = "stop2" /\ pc'[t] # "stop2")
              => current_camera_process' = None ]_vars

\* C12: from the moment stop_camera_process holds the lock until it returns
\* nobody else moves the reference, and when it returns the process that
\* was registered is not running any more.
C12_StoppedProcessNotAlive ==
    [][ \A t \in Threads :
          /\ (pc[t] = "stop2" /\ pc'[t] = "stop2")
                => current_camera_process' = current_camera_process
          /\ (pc[t] = "stop2" /\ pc'[t] # "stop2"
                /\ current_camera_process # None)
                => procs'[current_camera_process].state # "running" ]_vars

\* A request has stopped the session the boot thread registered: the
\* reference was cleared, which only the terminate path does.
C12_Witness ==
    \E r \in Req :
        /\ stops[r] >= 1
        /\ pc[<<r, "h">>] \notin {"stop1", "stop2"}
        /\ registered[Boot]
        /\ procs[pid[Boot]].state = "killed"
        /\ current_camera_process = None

Supported(res) ==
    \E i \in 1..Len(SUPPORTED_RESOLUTIONS) : SUPPORTED_RESOLUTIONS[i] = res
FitsWithin(width, height) ==
    {SUPPORTED_RESOLUTIONS[i] : i \in
        {j \in 1..Len(SUPPORTED_RESOLUTIONS) :
            /\ SUPPORTED_RESOLUTIONS[j].width <= width
            /\ SUPPORTED_RESOLUTIONS[j].height <= height}}
LargestWithin(res, width, height) ==
    /\ res \in FitsWithin(width, height)
    /\ \A other \in FitsWithin(width, height) :
          other.width <= res.width /\ other.height <= res.height
Returned == call.fn = "validate_resolution" /\ call.ret # << >>

\* C14 (as claimed): for a supported request validate_resolution returns the
\* request and no warning; for any other request it returns, with a warning,
\* the largest supported resolution whose width and height both do not
\* exceed the requested ones.
C14_LargestNotExceeding ==
    Returned =>
        LET width == call.args[1]
            height == call.args[2]
            res == call.ret[1]
            warning == call.ret[2]
        IN  IF Supported([width |-> width, height |-> height])
            THEN res = [width |-> width, height |-> height] /\ ~warning
            ELSE warning /\ LargestWithin(res, width, height)

\* C14 (amended): as above, except that a request no supported resolution
\* fits within (narrower than 640 or lower than 480) gets the lowest
\* supported resolution, 640x480, with a warning, although it exceeds the
\* request.
C14_LargestNotExceedingOrLowest ==
    Returned =>
        LET width == call.args[1]
            height == call.args[2]
            res == call.ret[1]
            warning == call.ret[2]
        IN  IF Supported([width |-> width, height |-> height])
            THEN res = [width |-> width, height |-> height] /\ ~warning
            ELSE /\ warning
                 /\ IF FitsWithin(width, height) # {}
                    THEN LargestWithin(res, width, height)
                    ELSE res = SUPPORTED_RESOLUTIONS[1]

\* An unsupported request that two supported resolutions fit within has
\* been answered.
C14_Witness ==
    /\ Returned
    /\ ~Supported([width |-> call.args[1], height |-> call.args[2]])
    /\ Cardinality(FitsWithin(call.args[1], call.args[2])) >= 2

\* C15 (as claimed): in every reachable state, from the settings
\* load_settings leaves at startup on through any /apply and /reset,
\* (settings.width, settings.height) is a supported resolution.
C15_ResolutionSupported ==
    Supported([width |-> settings.width, height |-> settings.height])

\* C16 (as claimed): while the rpicam-still of a /snapshot runs, no
\* streaming capture process is alive, however the background session
\* starts of /apply, /restart_service and other /snapshot requests
\* interleave with it.
C16_NoCaptureDuringStill ==
    (\A o \in Req : kind[o] \in {"none", "apply", "restart", "snapshot"})
        => \A r \in Req : pc[<<r, "h">>] = "still_run" => AliveCaptures = {}

\* C17: a /video_feed request that finds camera_running True at the gate
\* yields the one 'Camera in use by another viewer' part and ends; it spawns
\* nothing and neither it nor anyone else changes current_camera_process or
\* camera_running while it is being rejected.
C17_BusyViewerRejected ==
    [][ \A r \in Req :
          /\ (pc[<<r, "h">>] = "gate" /\ pc'[<<r, "h">>] # "gate" /\ camera_running)
                => /\ pc'[<<r, "h">>] = "busy"
                   /\ view'[r].resp = "none"
                   /\ procs' = procs
                   /\ current_camera_process' = current_camera_process
                   /\ camera_running' = camera_running
          /\ pc[<<r, "h">>] = "busy"
                => /\ pc'[<<r, "h">>] \in {"busy", "done"}
                   /\ view'[r].resp = (IF pc'[<<r, "h">>] = "done" THEN "busy" ELSE "none")
                   /\ spawns'[r] = 0
                   /\ pid'[r] = None
                   /\ current_camera_process' = current_camera_process
                   /\ camera_running' = camera_running ]_vars

\* One viewer is streaming and holds the flag; a second one has been
\* rejected.
C17_Witness ==
    \E r, a \in Req :
        /\ kind[r] = "video_feed"
        /\ pc[<<r, "h">>] = "done"
        /\ view[r].resp = "busy"
        /\ kind[a] = "video_feed"
        /\ pc[<<a, "h">>] = "mj_stream"
        /\ camera_running

\* C18 (as claimed): /hls/<file> serves a file only while streaming_mode is
\* 'hls', and /video_feed delivers frames only while streaming_mode is the
\* mode of neither other transport.
C18_ViewersGatedByMode ==
    [][ \A r \in Req :
          /\ (kind[r] = "serve_hls" /\ view[r].resp = "none" /\ view'[r].resp = "file")
                => streaming_mode = "hls"
          /\ (kind[r] = "video_feed" /\ view[r].resp = "none" /\ view'[r].resp = "frames")
                => streaming_mode \notin {"hls", "vlc"} ]_vars

\* C19: a /stream.h264 request that finds streaming_mode other than 'vlc'
\* is answered 400 and never attaches to a process; one that finds 'vlc'
\* but no live registered process when its generator starts sends an empty
\* body and ends, attached to nothing.
C19_StreamNeedsVlcMode ==
    [][ \A r \in Req :
          /\ (pc[<<r, "h">>] = "check" /\ pc'[<<r, "h">>] # "check"
                /\ streaming_mode # "vlc")
                => /\ pc'[<<r, "h">>] = "done"
                   /\ view'[r] = [resp |-> "400", proc |-> None, got |-> << >>]
          /\ (pc[<<r, "h">>] = "attach" /\ pc'[<<r, "h">>] # "attach"
                /\ streaming_mode = "vlc" /\ NoActiveSession)
                => /\ pc'[<<r, "h">>] = "done"
                   /\ view'[r] = [resp |-> "empty", proc |-> None, got |-> << >>] ]_vars

\* In 'vlc' mode, with the registered capture dead, a /stream.h264 request
\* has been answered with an empty body.
C19_Witness ==
    \E r \in Req :
        /\ kind[r] = "stream_h264"
        /\ pc[<<r, "h">>] = "done"
        /\ view[r] = [resp |-> "empty", proc |-> None, got |-> << >>]
        /\ streaming_mode = "vlc"
        /\ NoActiveSession

\* C20: whenever streaming_mode changes, the handler that changed it holds
\* streaming_mode_lock: it held it already or took it in that step, and
\* still holds it afterwards.
C20_ModeWrittenUnderLock ==
    [][ streaming_mode' # streaming_mode
          => \E r \in Req :
                /\ pc'[<<r, "h">>] # pc[<<r, "h">>]
                /\ streaming_mode_lock' = <<r, "h">>
                /\ streaming_mode_lock \in {<<r, "h">>, NoThread} ]_vars

\* /api/stop_vlc_mode has just switched the mode from 'vlc' back to 'hls'
\* and is still inside its with-block.
C20_Witness ==
    \E r \in Req :
        /\ kind[r] = "stop_vlc"
        /\ pc[<<r, "h">>] = "mode_release"
        /\ mode_at_begin[r] = "vlc"
        /\ streaming_mode = "hls"
        /\ streaming_mode_lock = <<r, "h">>

\* The handler of request r has produced its response.
Responded(r) == kind[r] # "none" /\ pc[<<r, "h">>] = "done"

C22_ResetRestartsSession ==
    \A r \in Req :
        (kind[r] = "reset" /\ Done(r))
            => \E p \in Pids : procs[p].gen >= req_gen[r]

\* C23 (as claimed): after a /reset, with no later request, every key of the
\* in-memory settings mapping has its built-in default value.
C23_ResetRestoresEveryKey ==
    \A r \in Req :
        (kind[r] = "reset" /\ Done(r) /\ \A o \in Req : o > r => kind[o] = "none")
            => settings = initial_settings

\* C24 (as claimed): /apply reinitialises the telemetry client exactly when
\* its body has a telemetry key, and restarts the camera exactly when its
\* body has a disruptive camera key, each independently of the other.
C24_TelemetryIndependentOfRestart ==
    /\ mqtt_client = Cardinality({r \in Req : /\ kind[r] = "apply"
                                              /\ pc[<<r, "h">>] # "update"
                                              /\ MqttChanged(body[r])})
    /\ \A r \in Req :
          (kind[r] = "apply" /\ Done(r)
             /\ (MqttChanged(body[r]) \/ Disruptive(body[r])))
              => (stops[r] > 0 <=> Disruptive(body[r]))

\* C25 (as claimed): a call of calculate_bandwidth with a previous sample
\* (t0, b0) and a current sample (t1, b1), t1 > t0, leaves the raw rate
\* (b1 - b0) * 8 / ((t1 - t0) * 1000) as the estimate when it is the first
\* rate computed, and 0.7 * previous estimate + 0.3 * raw rate on every later
\* one.
C25_SmoothedAfterFirst ==
    (call.fn = "calculate_bandwidth" /\ call.args # << >>)
        => LET before == call.ret[1]
               computed == call.ret[2]
               t1 == call.args[1]
               b1 == call.args[2]
               raw == RawRate(b1 - before.last_total_bytes, t1 - before.last_check_time)
           IN  (before.last_check_time > 0 /\ t1 > before.last_check_time)
                  => IF computed = 1
                     THEN bandwidth_data.current_kbps = raw
                     ELSE bandwidth_data.current_kbps = Smooth(before.current_kbps, raw)

\* The viewers inside the read loop of generate_frames with a running
\* rpicam-vid --codec mjpeg process of their own.
StreamingViewers ==
    {r \in Viewers : /\ kind[r] = "video_feed"
                     /\ pc[<<r, "h">>] \in {"mj_stream", "mj_stalled"}
                     /\ pid[r] # None
                     /\ Alive(pid[r])}

\* C26: at most one generate_frames generator is inside its MJPEG streaming
\* loop with a capture process of its own at any time, whatever /reset
\* requests interleave with the viewers.
C26_OneViewerStreaming == Cardinality(StreamingViewers) <= 1

\* The handler positions inside while True of generate_frames.
MjpegLoop ==
    {"mj_popen", "mj_respawn", "mj_register", "mj_stream", "mj_stalled",
     "mj_fallback"}

\* The last process a viewer started is not running in the next state.
OwnProcessEnded(r) == pid[r] # None => procs'[pid[r]].state # "running"

\* C27: a viewer that passed the gate leaves the loop only through the
\* cleanup, which has terminated its capture process, and its generator
\* finishes only by writing camera_running = False.
C27_ViewerCleansUp ==
    [][\A r \in Req :
          /\ (pc[<<r, "h">>] \in MjpegLoop /\ pc'[<<r, "h">>] \notin MjpegLoop)
                => (pc'[<<r, "h">>] = "mj_release" /\ OwnProcessEnded(r))
          /\ (pc[<<r, "h">>] = "mj_release" /\ pc'[<<r, "h">>] # "mj_release")
                => /\ pc'[<<r, "h">>] = "done"
                   /\ camera_running' = FALSE
                   /\ OwnProcessEnded(r)]_vars

\* A viewer that streamed frames has disconnected: its process was killed by
\* the cleanup and the flag is clear.
C27_Witness ==
    \E r \in Req :
        /\ kind[r] = "video_feed"
        /\ Done(r)
        /\ view[r].resp = "frames"
        /\ pid[r] # None
        /\ procs[pid[r]].state = "killed"
        /\ ~camera_running

\* The frames generate_frames has yielded so far.
Frames == IF call.fn = "generate_frames" THEN call.ret.frames ELSE << >>
\* The upstream position of the last byte of a frame.
FrameEnd(f) == f.at + Len(f.payload) - 1

\* C28: every image yielded is a contiguous slice of the upstream that starts
\* with FF D8 and ends with FF D9, the frames come in upstream order, and no
\* upstream byte lies in two frames.
C28_FramesAreUpstreamSlices ==
    /\ \A i \in 1..Len(Frames) :
          LET f == Frames[i]
          IN /\ Len(f.payload) >= 4
             /\ f.payload = SubSeq(call.args[1], f.at, FrameEnd(f))
             /\ SubSeq(f.payload, 1, 2) = jpeg_start
             /\ SubSeq(f.payload, Len(f.payload) - 1, Len(f.payload)) = jpeg_end
    /\ \A i \in 1..(Len(Frames) - 1) : FrameEnd(Frames[i]) < Frames[i + 1].at

\* Two frames have been cut out of one upstream.
C28_Witness == Len(Frames) = 2 /\ call.ret.pos = Len(call.args[1])

\* C29: a viewer whose capture process has ended or failed to start waits
\* before it spawns the next one: no Popen follows the end of the previous
\* process without a sleep in between.
C29_WaitBeforeRespawn ==
    [][\A r \in Req :
          ~(pc[<<r, "h">>] = "mj_respawn" /\ pc'[<<r, "h">>] = "mj_register")]_vars

\* C30: a read that returns no data makes the viewer fall back to still
\* capture: the step after the stalled read is the fallback, not another
\* read of the same process.
C30_StallFallsBack ==
    [][\A r \in Req :
          pc[<<r, "h">>] = "mj_stalled"
              => pc'[<<r, "h">>] \in {"mj_stalled", "mj_fallback"}]_vars

\* The capture process has exited and everything it wrote has been read: the
\* next read returns b'' with poll() not None, and the read loop breaks.
UpstreamDrained ==
    call.fn = "generate_frames" /\ call.ret.pos = Len(call.args[1])

\* C31: every complete frame read from the capture process is yielded: when
\* the process has exited and its output has been read to the end, no
\* complete frame is left in the frame buffer.
C31_NoFrameLeftBehind ==
    UpstreamDrained => ExtractFrame(call.ret.frame_buffer).start = 0

\* The chunks yielded to a viewer, as a set.
Got(r) == {view[r].got[i] : i \in 1..Len(view[r].got)}

\* C32: a chunk read from the output of a capture process is yielded to one
\* /stream.h264 viewer only, two viewers of one process never get the same
\* chunk, and a viewer gets its chunks in upstream order.
C32_ChunksNotShared ==
    /\ \A a \in Viewers : \A i \in 1..Len(view[a].got) :
          /\ view[a].got[i] \in 1..procs[view[a].proc].sent
          /\ i > 1 => view[a].got[i - 1] < view[a].got[i]
    /\ \A a, b \in Viewers :
          (a # b /\ view[a].proc = view[b].proc) => Got(a) \cap Got(b) = {}

\* Two viewers have read from one raw-tunnel process in turns.
C32_Witness ==
    \E a, b \in Viewers :
        /\ a # b
        /\ view[a].proc # None
        /\ view[a].proc = view[b].proc
        /\ procs[view[a].proc].kind = "vlc"
        /\ view[a].got = <<1, 3>>
        /\ view[b].got = <<2>>

\* The command lines of a transport have been built.
Built(transport) ==
    call.fn = "build_command" /\ call.args[1] = transport /\ call.ret # NoCommand
\* The command has an option with this flag.
HasFlag(cmd, flag) == \E i \in 1..Len(cmd) : cmd[i][1] = flag
\* The command has this flag with this value.
HasOption(cmd, flag, value) ==
    \E i \in 1..Len(cmd) : cmd[i][1] = flag /\ Len(cmd[i]) = 2 /\ cmd[i][2] = value

\* C33: the HLS transcoder transposes and re-encodes with libx264 exactly
\* when the rotation is 90 (transpose=1) or 270 (transpose=2) and copies the
\* stream otherwise; for the rotations 0, 90, 180 and 270 the capture command
\* has --rotation exactly when the rotation is 180.
C33_TransposeIffQuarterTurn ==
    Built("hls") =>
        LET rotation == settings.rotation
            cmd == call.ret.capture
            ffmpeg_cmd == call.ret.transcoder
        IN /\ HasFlag(ffmpeg_cmd, "-vf") <=> rotation \in {90, 270}
           /\ HasOption(ffmpeg_cmd, "-c:v", "libx264") <=> rotation \in {90, 270}
           /\ HasOption(ffmpeg_cmd, "-c:v", "copy") <=> rotation \notin {90, 270}
           /\ rotation = 90 => HasOption(ffmpeg_cmd, "-vf", "transpose=1")
           /\ rotation = 270 => HasOption(ffmpeg_cmd, "-vf", "transpose=2")
           /\ rotation \in MenuRotations =>
                 (HasFlag(cmd, "--rotation") <=> rotation = 180)
           /\ HasFlag(cmd, "--rotation") => HasOption(cmd, "--rotation", rotation)

\* An HLS pipeline for a quarter turn has been built.
C33_Witness ==
    /\ Built("hls")
    /\ settings.rotation = 270
    /\ HasOption(call.ret.transcoder, "-vf", "transpose=2")
    /\ ~HasFlag(call.ret.capture, "--rotation")

\* The settings whose option the claim expects only off their default.
AdjustableOptions ==
    << <<"--brightness", "brightness">>, <<"--contrast", "contrast">>,
       <<"--saturation", "saturation">>, <<"--sharpness", "sharpness">>,
       <<"--exposure", "exposure">>, <<"--metering", "metering">>,
       <<"--awb", "awb">>, <<"--ev", "ev">>, <<"--shutter", "shutter">>,
       <<"--gain", "gain">>, <<"--denoise", "denoise">>, <<"--hdr", "hdr">>,
       <<"--hflip", "hflip">>, <<"--vflip", "vflip">> >>

\* C34: on every transport the capture command has the option of an
\* adjustable setting only when that setting is off its default value.
C34_OptionsOnlyOffDefault ==
    \A transport \in Transports :
        Built(transport) =>
            \A i \in 1..Len(AdjustableOptions) :
                LET flag == AdjustableOptions[i][1]
                    key == AdjustableOptions[i][2]
                IN HasFlag(call.ret.capture, flag)
                       => settings[key] # camera_settings[key]

\* The pipeline turns the picture by the rotation asked for.
Rotates(command, rotation) ==
    \/ HasOption(command.capture, "--rotation", rotation)
    \/ rotation = 90 /\ HasOption(command.transcoder, "-vf", "transpose=1")
    \/ rotation = 270 /\ HasOption(command.transcoder, "-vf", "transpose=2")

\* C35: the HLS pipeline and the raw tunnel apply each of the rotations 90,
\* 180 and 270, by --rotation or by a transpose stage (rotation 0 asks for
\* nothing).
C35_RotationApplied ==
    \A transport \in {"hls", "vlc"} :
        (Built(transport) /\ settings.rotation \in MenuRotations \ {0})
            => Rotates(call.ret, settings.rotation)

\* C36: with no handler or start thread at work (so no viewer is streaming),
\* camera_running is True only if the capture process registered as
\* current_camera_process is alive.
C36_ReadyMeansCapturing ==
    (Quiescent /\ camera_running)
        => (current_camera_process # None /\ Alive(current_camera_process))

\* C37: when a /vlc or /web mode switch and a POST /api/stop_vlc_mode that
\* ran concurrently have both completed and the mode of the switch stands,
\* the capture process started for the switch has not been killed: the only
\* stop that can have killed it is the one of the /api/stop_vlc_mode request.
C37_SwitchSurvivesStopVlc ==
    \A r, q \in Req :
        (/\ kind[r] \in {"web", "vlc"}
         /\ kind[q] = "stop_vlc"
         /\ q \in overlap[r] \/ r \in overlap[q]
         /\ Done(r) /\ Done(q)
         /\ streaming_mode = TargetMode(kind[r])
         /\ pid[r] # None)
            => procs[pid[r]].state # "killed"

\* C38: a GET /web that follows a completed POST /api/stop_vlc_mode has,
\* when it and the thread it started are through, launched an HLS capture
\* process.
C38_WebAfterStopVlcStartsHls ==
    \A q, r \in Req :
        (/\ kind[q] = "stop_vlc" /\ kind[r] = "web"
         /\ q < r
         /\ Done(q) /\ Done(r))
            => /\ spawns[r] >= 1
               /\ procs[pid[r]].kind = "hls"

\* The start_h264_camera threads the handler of a /snapshot request started.
RestartsLaunched(r) ==
    {t \in {<<r, "c">>} : pc[t] # "idle"}
    \cup {t \in {<<Spare, "c">>} : still[r] = "raised" /\ pc[t] # "idle"}

\* C39: a /snapshot request that has returned has started exactly one
\* start_h264_camera thread, whatever the outcome of the still command and
\* of the statements after it.
C39_RestartLaunchedOnce ==
    \A r \in Req :
        (kind[r] = "snapshot" /\ pc[<<r, "h">>] = "done")
            => Cardinality(RestartsLaunched(r)) = 1

\* C40: the bandwidth estimate kept in bandwidth_data['current_kbps'] and
\* returned by calculate_bandwidth is never negative.
C40_EstimateNotNegative == bandwidth_data.current_kbps[1] >= 0

====
